---- MODULE Spec2Model ----
(***************************************************************************)
(* DigiMan task orchestration core (src/digimanai.py): the persisted       *)
(* per-tenant task queue, the worker registry and the workers' run_task,   *)
(* the deployment gate, the scheduler loop (autonomous_loop inside         *)
(* main_loop_forever) and the request surface that runs beside it.         *)
(*                                                                         *)
(* Python values whose type decides the control flow are tagged records:   *)
(* a str is [type |-> "str", s |-> ...], a task dict is                    *)
(* [type |-> "dict", task |-> ..., priority |-> ...].  Python dicts keyed  *)
(* by names are functions whose DOMAIN is the set of keys present.         *)
(* Append-only log files are bags of lines (the order of lines is not      *)
(* read by any code path).                                                  *)
(***************************************************************************)
EXTENDS Integers, Sequences, FiniteSets, Bags, TLC

(***************************************************************************)
(* Bounds of the model.                                                    *)
(***************************************************************************)
MaxCycles == 2      \* scheduler cycles (and API calls of run_agents) started
MaxCommands == 1    \* requests accepted by the request surface
MaxFailures == 1    \* I/O failures the environment injects
MaxEnqueues == 2    \* direct calls of update_task_queue (store API)
MaxPriority == 3    \* priorities offered to the store API: 1..MaxPriority
MaxLongRun == 5     \* cycles of the long run, to see the phase cursor wrap
MaxGateCalls == 1   \* direct calls of deploy_agent
MaxConfigCalls == 2 \* direct calls of the integrate endpoint and the constructors
MaxQueries == 2     \* calls of the insights query

(***************************************************************************)
(* Program constants.                                                      *)
(***************************************************************************)
business_phases == <<"setup", "promotion", "sales", "onboarding", "client_ops">>

\* client_id None: the house tenant, whose files live directly in .digi
None == "None"

\* the client_id a request may carry: absent, a tenant's name, or the path
\* segment ".."
ClientIds == {None, "acme", ".."}

\* log_dir of lines 112, 125, 146, 161 and 174, as the file system resolves
\* it: ".digi" for a falsy client_id and ".digi/clients/<client_id>" otherwise,
\* which for the client_id ".." is the directory ".digi" again.  A directory
\* is named by the client_id it is the own directory of, ".digi" by None.
log_dir(client_id) == IF client_id = ".." THEN None ELSE client_id

LogDirs == {log_dir(c) : c \in ClientIds}

\* AGENT_REGISTRY: the names in the dict's (insertion) iteration order
AGENT_REGISTRY ==
  << "Manager Agent", "Email Agent", "Web Builder Agent",
     "Partnership Scout Agent", "Chain Validator Agent",
     "Strategic Planner Agent", "Closer Agent", "CRM Agent", "Scout Agent",
     "Brand Manager Agent", "Marketing Agent", "Visuals Agent",
     "Socials Agent", "Outreach Agent", "Subscription Agent",
     "Support Agent", "Retention Agent", "Analyst Agent",
     "Franchise Builder Agent", "Franchise Intelligence Agent",
     "Franchise Relationship Agent", "Autonomous Sales Replicator" >>

\* agent_tasks of autonomous_loop: (name, bootstrap description), in its order
agent_tasks ==
  << <<"Chain Validator Agent", "Validates logic and system alignment">>,
     <<"Strategic Planner Agent", "Deploys agents based on business needs">>,
     <<"Closer Agent", "Handles calls, objections, and closes deals">>,
     <<"CRM Agent", "Captures and manages lead intelligence">>,
     <<"Scout Agent", "Finds niches, pain points, and target clients">>,
     <<"Brand Manager Agent", "Assigns visuals, socials, and marketing">>,
     <<"Marketing Agent", "Writes email/DMs, launches funnels">>,
     <<"Visuals Agent", "Designs branding assets">>,
     <<"Socials Agent", "Posts content, grows channels">>,
     <<"Outreach Agent", "Sends outbound emails and messages">>,
     <<"Subscription Agent", "Manages billing and upgrades">>,
     <<"Support Agent", "Handles tickets and feedback">>,
     <<"Retention Agent", "Reduces churn, boosts LTV">>,
     <<"Web Builder Agent", "Creates landing pages and websites">>,
     <<"Manager Agent", "Manages client agents">>,
     <<"Analyst Agent", "Reviews pricing, growth, and trends">>,
     <<"Franchise Builder Agent", "Clones and deploys DigiMan franchises">>,
     <<"Franchise Intelligence Agent", "Analyzes franchise performance">>,
     <<"Franchise Relationship Agent", "Handles onboarding and support for franchises">>,
     <<"Autonomous Sales Replicator", "Clones high-converting sales strategies">>,
     <<"Email Agent", "Manages inbound and outbound client communication">>,
     <<"Partnership Scout Agent", "Identifies collaboration opportunities">> >>

(***************************************************************************)
(* Scope of the model: the workers whose classes are modelled.  The        *)
(* registry and agent_tasks are iterated in the source's order, restricted *)
(* to these names.                                                          *)
(***************************************************************************)
ModelledAgents == {"Manager Agent", "Email Agent", "Closer Agent", "CRM Agent"}

IsModelledName(a) == a \in ModelledAgents

IsModelledTask(t) == t[1] \in ModelledAgents

Registry == SelectSeq(AGENT_REGISTRY, IsModelledName)

\* Faulty variant: the seed list lacks Email Agent
SeedTasksWithoutEmail ==
  SelectSeq(SelectSeq(agent_tasks, IsModelledTask), LAMBDA t : t[1] # "Email Agent")

SeedTasks == SelectSeq(agent_tasks, IsModelledTask)

(***************************************************************************)
(* Python values.                                                          *)
(***************************************************************************)
Str(s) == [type |-> "str", s |-> s]

TaskDict(desc, priority) == [type |-> "dict", task |-> desc, priority |-> priority]

\* a task dict given without a "priority" key
TaskDictNoPriority(desc) == [type |-> "dict", task |-> desc]

EmptyDict == [k \in {} |-> << >>]

\* dict.get(key, default)
DictGet(d, key, default) == IF key \in DOMAIN d THEN d[key] ELSE default

\* d[key] = value on a dict
DictSet(d, key, value) ==
  [k \in DOMAIN d \cup {key} |-> IF k = key THEN value ELSE d[k]]

(***************************************************************************)
(* Keyword matching: "kw in text.lower()".  Strings are atomic in the      *)
(* model, so the substring relation is tabulated for the descriptions the  *)
(* model uses.                                                              *)
(***************************************************************************)
KeywordTable ==
  { <<"process inbox", "Process inbox">>,
    <<"update deal", "update deal">>,
    <<"update deal", "Update deal status">>,
    <<"add lead", "add lead: mock lead found at x@y.com">>,
    <<"process command", "Process command: hello">>,
    <<"process command", "Process command: OVERRIDE: Closer Agent">>,
    <<"report", "Review analytics report">> }

Contains(kw, text) == <<kw, text>> \in KeywordTable

(***************************************************************************)
(* State.                                                                  *)
(***************************************************************************)
VARIABLES
  CONFIG,               \* the configuration store: key -> value
  metrics,              \* the process-wide counters
  current_phase_index,  \* the BusinessPhase cursor
  queueFile,            \* client_id -> agent_queue.json
  actionsLog,           \* client_id -> actions.log, a bag of <<agent, action>>
  feedbackFile,         \* client_id -> user_feedback.txt, a bag of messages
  loggerErrors,         \* logger.error lines (digiman.log), a bag
  metaFile,             \* agent name -> the <agent>.meta record of the house tenant
  scoreboard,           \* scoreboard.txt of the house tenant: sequence of lines
  stamps,               \* writer -> number of timestamps it has taken
  pc,                   \* scheduler thread: state of the cycle
  step,                 \* scheduler thread: position inside the state
  idx,                  \* scheduler thread: loop index of DEPLOY, SEED, DISPATCH
  cycle,                \* cycles (or API runs of run_agents) started so far
  overrides,            \* autonomous_loop's local: owner overrides of this cycle
  queue,                \* local of run_agents / update_task_queue: the loaded dict
  tasks,                \* local of run_agents: sorted tasks not yet dispatched
  agent_instance,       \* local of run_agents: the worker constructed for idx
  rpc,                  \* request thread: position inside the handler
  req,                  \* request thread: the request and the handler's locals
  commands,             \* requests accepted so far
  insights,             \* request thread: the last response of get_insights
  apiCalls,             \* direct update_task_queue calls so far
  failures,             \* I/O failures injected so far
  dispatched,           \* history: every (cycle, agent, entry) handed to run_task
  persisted,            \* history: every entry a successful enqueue stored
  snapshot,             \* history: the dict run_agents loaded, before it is emptied
  lastCycle,            \* history: how the last finished cycle ended
  gateRuns              \* history: every call of deploy_agent, in order

vars ==
  << CONFIG, metrics, current_phase_index, queueFile, actionsLog, feedbackFile,
     loggerErrors, metaFile, scoreboard, stamps, pc, step, idx, cycle,
     overrides, queue, tasks, agent_instance, rpc, req, commands, insights,
     apiCalls, failures, dispatched, persisted, snapshot, lastCycle, gateRuns >>

(***************************************************************************)
(* The files and counters an operation reads and writes, gathered in one   *)
(* record so that the calls of a handler compose.                           *)
(***************************************************************************)
World ==
  [ actions |-> actionsLog, feedback |-> feedbackFile, metrics |-> metrics,
    queues |-> queueFile, errors |-> loggerErrors, meta |-> metaFile,
    board |-> scoreboard, stamps |-> stamps, persisted |-> persisted,
    gates |-> gateRuns ]

Commit(w) ==
  /\ actionsLog' = w.actions
  /\ feedbackFile' = w.feedback
  /\ metrics' = w.metrics
  /\ queueFile' = w.queues
  /\ loggerErrors' = w.errors
  /\ metaFile' = w.meta
  /\ scoreboard' = w.board
  /\ stamps' = w.stamps
  /\ persisted' = w.persisted
  /\ gateRuns' = w.gates

\* logger.error(...)
LogError(w, what) == [w EXCEPT !.errors = @ (+) SetToBag({what})]

\* log_action: one line in the tenant's actions.log, tasks_processed + 1
log_action(w, agent_name, action, client_id) ==
  [w EXCEPT !.actions[log_dir(client_id)] = @ (+) SetToBag({<<agent_name, action>>}),
            !.metrics.tasks_processed = @ + 1]

\* send_message_to_digiman: one line in the tenant's user_feedback.txt
send_message_to_digiman(w, message, client_id) ==
  [w EXCEPT !.feedback[log_dir(client_id)] = @ (+) SetToBag({message})]

\* Faulty variant: a key that is present with an empty value counts as set
TruthyIfPresent(key) == key \in DOMAIN CONFIG

\* CONFIG.get(key) is truthy
Truthy(key) == key \in DOMAIN CONFIG /\ CONFIG[key] # ""

\* audit_env_keys: the missing keys; reported to the house tenant's logs
MissingKeys(keys) == {key \in keys : ~Truthy(key)}

audit_env_keys(w, keys) ==
  IF MissingKeys(keys) # {}
  THEN send_message_to_digiman(
         log_action(w, "ENV_AUDIT", "Missing keys", None),
         "MISSING_KEY_REQUEST", None)
  ELSE w

\* check_owner_overrides: the names after "OVERRIDE: " in the feedback lines
OverrideNames(message) ==
  IF message = "USER: OVERRIDE: Closer Agent" THEN {"Closer Agent"} ELSE {}

\* Faulty variant: the feedback log is not read
check_owner_overrides_unread(client_id) == {}

check_owner_overrides(client_id) ==
  UNION {OverrideNames(m) : m \in BagToSet(feedbackFile[log_dir(client_id)])}

(***************************************************************************)
(* Task Queue Store.  A queue file is absent, holds a dict, or is corrupt  *)
(* (left truncated by a write that failed after open).                     *)
(***************************************************************************)
AbsentFile == [st |-> "absent", q |-> EmptyDict]

CorruptFile == [st |-> "corrupt", q |-> EmptyDict]

OkFile(q) == [st |-> "ok", q |-> q]

WriteOutcomes == {"ok", "unchanged", "corrupt"}

\* Faulty variant: a corrupt file is replaced by an empty queue file
load_task_queue_repairs(w, client_id) ==
  LET f == w.queues[log_dir(client_id)] IN
  CASE f.st = "ok" -> [w |-> w, queue |-> f.q]
    [] f.st = "corrupt" ->
         [w |-> [LogError(w, "Failed to load task queue")
                   EXCEPT !.queues[log_dir(client_id)] = [st |-> "ok", q |-> EmptyDict]],
          queue |-> EmptyDict]
    [] OTHER -> [w |-> w, queue |-> EmptyDict]

\* load_task_queue: the dict, or {} for a missing or unreadable file
load_task_queue(w, client_id) ==
  LET f == w.queues[log_dir(client_id)] IN
  CASE f.st = "ok" -> [w |-> w, queue |-> f.q]
    [] f.st = "corrupt" ->
         [w |-> LogError(w, "Failed to load task queue"), queue |-> EmptyDict]
    [] OTHER -> [w |-> w, queue |-> EmptyDict]

\* datetime.datetime.now(), as (writer, serial number of the writer's reading)
Timestamp(w, writer) == <<writer, w.stamps[writer] + 1>>

\* update_task_queue, lines 178-183: the entry appended to the loaded dict
TaskEntry(w, task, writer) ==
  [ task |-> task, priority |-> DictGet(task, "priority", 1),
    timestamp |-> Timestamp(w, writer) ]

\* json.dump(queue) into the tenant's queue file, with the write's outcome
WriteQueueFile(w, client_id, q, outcome) ==
  CASE outcome = "ok" -> [w EXCEPT !.queues[log_dir(client_id)] = OkFile(q)]
    [] outcome = "corrupt" -> [w EXCEPT !.queues[log_dir(client_id)] = CorruptFile]
    [] OTHER -> w

\* Faulty variant: the entry replaces the worker's list instead of being appended to it
update_task_queue_overwrites(w, agent_name, task, client_id, loaded, writer, outcome) ==
  LET entry == TaskEntry(w, task, writer)
      q == DictSet(loaded, agent_name, <<entry>>)
      w1 == [w EXCEPT !.stamps[writer] = @ + 1]
  IN IF outcome = "ok"
     THEN log_action(
            [WriteQueueFile(w1, client_id, q, "ok") EXCEPT
               !.persisted = @ \cup {[ client_id |-> client_id, agent |-> agent_name,
                                        task |-> task,
                                        timestamp |-> entry.timestamp ]}],
            agent_name, "Task queued", client_id)
     ELSE LogError(WriteQueueFile(w1, client_id, q, outcome),
                   "Failed to update task queue")

\* Faulty variant: the dict is written as it was loaded, without the new entry
update_task_queue_write_drops(w, agent_name, task, client_id, loaded, writer, outcome) ==
  LET entry == TaskEntry(w, task, writer)
      w1 == [w EXCEPT !.stamps[writer] = @ + 1]
  IN IF outcome = "ok"
     THEN log_action(
            [WriteQueueFile(w1, client_id, loaded, "ok") EXCEPT
               !.persisted = @ \cup {[ client_id |-> client_id, agent |-> agent_name,
                                        task |-> task,
                                        timestamp |-> entry.timestamp ]}],
            agent_name, "Task queued", client_id)
     ELSE LogError(WriteQueueFile(w1, client_id, loaded, outcome),
                   "Failed to update task queue")

\* update_task_queue, lines 178-189: append the entry to the loaded dict and
\* write it; a write that fails is logged and the "Task queued" line skipped
update_task_queue_write(w, agent_name, task, client_id, loaded, writer, outcome) ==
  LET entry == TaskEntry(w, task, writer)
      q == DictSet(loaded, agent_name, Append(DictGet(loaded, agent_name, << >>), entry))
      w1 == [w EXCEPT !.stamps[writer] = @ + 1]
  IN IF outcome = "ok"
     THEN log_action(
            [WriteQueueFile(w1, client_id, q, "ok") EXCEPT
               !.persisted = @ \cup {[ client_id |-> client_id, agent |-> agent_name,
                                        task |-> task,
                                        timestamp |-> entry.timestamp ]}],
            agent_name, "Task queued", client_id)
     ELSE LogError(WriteQueueFile(w1, client_id, q, outcome),
                   "Failed to update task queue")

\* update_task_queue as one uninterrupted call whose write succeeds
update_task_queue(w, agent_name, task, client_id, writer) ==
  LET l == load_task_queue(w, client_id)
  IN update_task_queue_write(l.w, agent_name, task, client_id, l.queue, writer, "ok")

(***************************************************************************)
(* sorted(tasks, key=priority, reverse=True): Python's sort is stable, and *)
(* reverse=True keeps the original order of equal keys.  Computed as an    *)
(* insertion sort that places each element after the elements whose        *)
(* priority is at least its own.                                            *)
(***************************************************************************)
RECURSIVE InsertByPriority(_, _)
InsertByPriority(e, s) ==
  IF s = << >> THEN <<e>>
  ELSE IF Head(s).priority >= e.priority
       THEN <<Head(s)>> \o InsertByPriority(e, Tail(s))
       ELSE <<e>> \o s

\* Faulty variant: sorted(...) without reverse=True (ascending priority)
RECURSIVE InsertAscending(_, _)
InsertAscending(e, s) ==
  IF s = << >> THEN <<e>>
  ELSE IF Head(s).priority <= e.priority
       THEN <<Head(s)>> \o InsertAscending(e, Tail(s))
       ELSE <<e>> \o s

RECURSIVE SortedTasksAscending(_)
SortedTasksAscending(s) ==
  IF s = << >> THEN << >>
  ELSE InsertAscending(s[Len(s)], SortedTasksAscending(SubSeq(s, 1, Len(s) - 1)))

RECURSIVE SortedTasks(_)
SortedTasks(s) ==
  IF s = << >> THEN << >>
  ELSE InsertByPriority(s[Len(s)], SortedTasks(SubSeq(s, 1, Len(s) - 1)))

(***************************************************************************)
(* Workers.  required_keys of the classes that compute them from CONFIG    *)
(* test substrings of the upper-cased key; tabulated for the keys of the   *)
(* model.                                                                   *)
(***************************************************************************)
KeyWordTable ==
  { <<"CRM", "ZOHO_CRM_API_KEY">>, <<"HUBSPOT", "HUBSPOT_ACCESS_TOKEN">>,
    <<"SALESFORCE", "SALESFORCE_API_KEY">>,
    <<"CALL", "CALL_API_KEY">>, <<"CALL", "CALL_ENDPOINT">>,
    <<"CRM", "CRM_API_KEY">>, <<"CRM", "CRM_ENDPOINT">> }

KeyContains(word, key) == <<word, key>> \in KeyWordTable

required_keys(agent_name) ==
  CASE agent_name = "Manager Agent" ->
         {"HUBSPOT_ACCESS_TOKEN", "SALESFORCE_API_KEY", "ZOHO_CRM_API_KEY"}
    [] agent_name = "Email Agent" ->
         {"EMAIL_ACCOUNT", "EMAIL_PASSWORD", "IMAP_SERVER", "SMTP_SERVER"}
    [] agent_name = "Closer Agent" ->
         {key \in DOMAIN CONFIG : KeyContains("CALL", key) \/ KeyContains("VOICE", key)}
    [] agent_name = "CRM Agent" ->
         {key \in DOMAIN CONFIG : \/ KeyContains("CRM", key)
                                  \/ KeyContains("HUBSPOT", key)
                                  \/ KeyContains("SALESFORCE", key)}
    [] OTHER -> {}

\* agent_class(client_id): __init__ audits the required keys (logging what is
\* missing) and sets active
Construct(w, agent_name, client_id) ==
  [ w |-> audit_env_keys(w, required_keys(agent_name)),
    instance |-> [ name |-> agent_name, client_id |-> client_id,
                   required_keys |-> required_keys(agent_name),
                   active |-> MissingKeys(required_keys(agent_name)) = {} ] ]

NoInstance == [name |-> "none"]

(***************************************************************************)
(* run_task of the modelled workers.  Each returns the world it leaves and *)
(* whether it raised.  Every run_task logs "Running task" and then calls   *)
(* task["task"].lower(); only a str has .lower(), so for any other value   *)
(* the call raises AttributeError before a keyword is matched.              *)
(***************************************************************************)
HasLower(v) == v.type = "str"

Returned(w) == [w |-> w, raised |-> FALSE]

Raised(w) == [w |-> w, raised |-> TRUE]

\* ManagerAgent.monitor_performance
monitor_performance(w, self, writer) ==
  LET w1 == IF w.metrics.tasks_failed > 5
            THEN update_task_queue(
                   send_message_to_digiman(w, "High failure rate", self.client_id),
                   "Support Agent", TaskDict("Investigate task failures", 3),
                   self.client_id, writer)
            ELSE w
  IN log_action(w1, "Manager Agent", "Monitored performance", self.client_id)

\* ManagerAgent.generate_report
generate_report(w, self, writer) ==
  update_task_queue(
    log_action(w, "Manager Agent", "Generated report", self.client_id),
    "Analyst Agent", TaskDict("Analyze report", 2), self.client_id, writer)

\* ManagerAgent.process_command
process_command(w, self, command, writer) ==
  LET w1 == IF Contains("email", command)
            THEN update_task_queue(w, "Email Agent", TaskDict("Process inbox", 2),
                                   self.client_id, writer)
            ELSE IF Contains("website", command)
            THEN update_task_queue(w, "Web Builder Agent", TaskDict("Build website", 2),
                                   self.client_id, writer)
            ELSE w
  IN log_action(w1, "Manager Agent", "Processed command", self.client_id)

\* ManagerAgent.scale_self
scale_self(w, self, writer) ==
  IF w.metrics.leads_generated > 1000
  THEN log_action(
         update_task_queue(w, "Franchise Builder Agent",
                           TaskDict("Deploy new franchise", 3), self.client_id, writer),
         "Manager Agent", "Scaling: Initiated franchise deployment", self.client_id)
  ELSE w

ManagerAgent_run_task(w, self, task, writer) ==
  LET w1 == log_action(w, "Manager Agent", "Running task", self.client_id) IN
  IF ~HasLower(task.task) THEN Raised(w1)
  ELSE LET text == task.task.s
           w2 == IF Contains("monitor", text) THEN monitor_performance(w1, self, writer)
                 ELSE IF Contains("report", text) THEN generate_report(w1, self, writer)
                 ELSE IF Contains("process command", text)
                      THEN process_command(w1, self, text, writer)
                 ELSE w1
       IN Returned(scale_self(w2, self, writer))

\* EmailAgent.process_inbox; with credentials the inbox is read over IMAP
\* (external collaborator, taken to hold no unseen mail)
process_inbox(w, self, writer) ==
  IF self.active THEN w
  ELSE update_task_queue(
         [log_action(w, "Email Agent", "Mock inbox processed: 5 leads identified",
                     self.client_id)
            EXCEPT !.metrics.leads_generated = @ + 5],
         "CRM Agent", TaskDict("Add mock leads", 2), self.client_id, writer)

\* EmailAgent.send_email_campaign; with credentials it sends over SMTP
\* (external collaborator, taken to accept the mail)
send_email_campaign(w, self) ==
  IF self.active
  THEN log_action(w, "Email Agent", "Sent campaign email", self.client_id)
  ELSE log_action(w, "Email Agent", "Mock email campaign sent to 10 leads",
                  self.client_id)

EmailAgent_run_task(w, self, task, writer) ==
  LET w1 == log_action(w, "Email Agent", "Running task", self.client_id) IN
  IF ~HasLower(task.task) THEN Raised(w1)
  ELSE LET text == task.task.s IN
       IF Contains("process inbox", text) THEN Returned(process_inbox(w1, self, writer))
       ELSE IF Contains("send campaign", text) THEN Returned(send_email_campaign(w1, self))
       ELSE Returned(w1)

\* CloserAgent.close_deal
close_deal(w, self, writer) ==
  IF self.active /\ self.required_keys # {}
  THEN log_action(w, "Closer Agent", "Initiated call via API", self.client_id)
  ELSE update_task_queue(
         [log_action(w, "Closer Agent", "Mock deal closed", self.client_id)
            EXCEPT !.metrics.revenue_generated = @ + 1000],
         "CRM Agent", TaskDict("Update deal status", 2), self.client_id, writer)

CloserAgent_run_task(w, self, task, writer) ==
  LET w1 == log_action(w, "Closer Agent", "Running task", self.client_id) IN
  IF ~HasLower(task.task) THEN Raised(w1)
  ELSE IF Contains("close deal", task.task.s) THEN Returned(close_deal(w1, self, writer))
  ELSE Returned(w1)

\* CRMAgent.add_lead: make_api_request returns None (it calls request.request,
\* which flask's request does not have), so the mock line is always logged
add_lead(w, self) == log_action(w, "CRM Agent", "Mock lead added", self.client_id)

\* CRMAgent.update_deal
update_deal(w, self) ==
  log_action(w, "CRM Agent", "Mock deal updated in CRM", self.client_id)

CRMAgent_run_task(w, self, task, writer) ==
  LET w1 == log_action(w, "CRM Agent", "Running task", self.client_id) IN
  IF ~HasLower(task.task) THEN Raised(w1)
  ELSE LET text == task.task.s IN
       IF Contains("add lead", text) THEN Returned(add_lead(w1, self))
       ELSE IF Contains("update deal", text) THEN Returned(update_deal(w1, self))
       ELSE Returned(w1)

\* agent_instance.run_task(task): dispatch on the worker's class
run_task(w, self, task, writer) ==
  CASE self.name = "Manager Agent" -> ManagerAgent_run_task(w, self, task, writer)
    [] self.name = "Email Agent" -> EmailAgent_run_task(w, self, task, writer)
    [] self.name = "Closer Agent" -> CloserAgent_run_task(w, self, task, writer)
    [] self.name = "CRM Agent" -> CRMAgent_run_task(w, self, task, writer)

\* Faulty variant: the handler counts the failure without logging it
GuardedRunTaskUnlogged(w, self, task, writer) ==
  LET r == run_task(w, self, task, writer) IN
  IF r.raised
  THEN [r.w EXCEPT !.metrics.tasks_failed = @ + 1]
  ELSE r.w

\* run_agents, lines 807-811: the per-task guard around run_task
GuardedRunTask(w, self, task, writer) ==
  LET r == run_task(w, self, task, writer) IN
  IF r.raised
  THEN [log_action(r.w, self.name, "Task error", self.client_id)
          EXCEPT !.metrics.tasks_failed = @ + 1]
  ELSE r.w

(***************************************************************************)
(* Deployment gate.  The source text of a worker class is modelled by the  *)
(* four features evaluate_agent_quality reads from it: what compile() does *)
(* with it (returns, raises SyntaxError, or raises another exception such  *)
(* as RecursionError on deeply nested source, which line 92 does not       *)
(* catch), whether the class pattern matches, the number of "def "         *)
(* occurrences, and whether "log_action" occurs.                           *)
(***************************************************************************)
SourceText(compiles, has_class, defs, has_log_action) ==
  [ compiles |-> compiles, has_class |-> has_class, defs |-> defs,
    has_log_action |-> has_log_action ]

\* inspect.getsource(agent_class): the number of "def " in each modelled class
AgentSource(agent_name) ==
  CASE agent_name = "Manager Agent" -> SourceText("ok", TRUE, 6, TRUE)
    [] agent_name = "Email Agent" -> SourceText("ok", TRUE, 4, TRUE)
    [] agent_name = "Closer Agent" -> SourceText("ok", TRUE, 3, TRUE)
    [] agent_name = "CRM Agent" -> SourceText("ok", TRUE, 4, TRUE)

\* Faulty variant: more than three "def " are required
evaluate_agent_quality_strict(code) ==
  [ raised |-> code.compiles \notin {"ok", "SyntaxError"},
    score |-> IF code.compiles \notin {"ok", "SyntaxError"} THEN 0
              ELSE (IF code.compiles = "ok" THEN 1 ELSE 0)
                   + (IF code.has_class THEN 1 ELSE 0)
                   + (IF code.defs > 3 THEN 1 ELSE 0)
                   + (IF code.has_log_action THEN 1 ELSE 0),
    reasons |-> IF code.compiles \notin {"ok", "SyntaxError"} THEN << >>
                ELSE (IF code.compiles = "ok" THEN << >> ELSE <<"Syntax error">>)
                     \o (IF code.has_class THEN << >>
                         ELSE <<"Missing class definition">>)
                     \o (IF code.defs > 3 THEN << >>
                         ELSE <<"Less than 3 methods defined">>)
                     \o (IF code.has_log_action THEN << >>
                         ELSE <<"Missing log_action usage">>) ]

\* evaluate_agent_quality: (score, reasons), or the exception compile() raised
\* other than SyntaxError (then there is no result)
evaluate_agent_quality(code) ==
  [ raised |-> code.compiles \notin {"ok", "SyntaxError"},
    score |-> IF code.compiles \notin {"ok", "SyntaxError"} THEN 0
              ELSE (IF code.compiles = "ok" THEN 1 ELSE 0)
                   + (IF code.has_class THEN 1 ELSE 0)
                   + (IF code.defs >= 3 THEN 1 ELSE 0)
                   + (IF code.has_log_action THEN 1 ELSE 0),
    reasons |-> IF code.compiles \notin {"ok", "SyntaxError"} THEN << >>
                ELSE (IF code.compiles = "ok" THEN << >> ELSE <<"Syntax error">>)
                     \o (IF code.has_class THEN << >>
                         ELSE <<"Missing class definition">>)
                     \o (IF code.defs >= 3 THEN << >>
                         ELSE <<"Less than 3 methods defined">>)
                     \o (IF code.has_log_action THEN << >>
                         ELSE <<"Missing log_action usage">>) ]

NoMeta == [status |-> "none"]

\* no insights query answered yet
NoResponse == [phase |-> "none"]

\* Faulty variant: a score of 3 is locked
GateStatusStrict(score) == IF score <= 3 THEN "LOCKED" ELSE "DEPLOYED"

\* deploy_agent, lines 782-786: the marker written to the meta file
GateStatus(score) == IF score < 3 THEN "LOCKED" ELSE "DEPLOYED"

\* Faulty variant: every gate run that completes is counted
GateCountsAlways(score) == score >= 0

\* deploy_agent, line 794: the run counts as a deployment
GateCounts(score) == score >= 3

\* where the try block of deploy_agent stops: nowhere ("ok"), or at the open
\* of the worker's source file, of its meta file, of the scoreboard
DeployOutcomes == {"ok", "file", "meta", "board"}

\* deploy_agent with the class given by its source text.  A failed open is
\* logged and ends the call; an exception of evaluate_agent_quality
\* propagates to the caller before anything is written.
deploy_source(w, agent_name, code, client_id, outcome) ==
  LET q == evaluate_agent_quality(code)
      status == GateStatus(q.score)
      run(marker, returned) ==
        [ cycle |-> cycle, agent |-> agent_name, code |-> code, outcome |-> outcome,
          raised |-> q.raised, score |-> q.score, reasons |-> q.reasons,
          marker |-> marker, returned |-> returned ]
      record(x, r) == [x EXCEPT !.gates = Append(@, r)]
      w1 == [w EXCEPT !.meta[agent_name] =
                        [status |-> status, score |-> q.score, issues |-> q.reasons]]
      w2 == IF status = "LOCKED"
            THEN log_action(w1, agent_name, "Agent locked due to low score", client_id)
            ELSE w1
      w3 == [w2 EXCEPT !.board = Append(@, <<agent_name, q.score, q.reasons>>)]
  IN CASE q.raised -> record(w, run("none", FALSE))
       [] outcome \in {"file", "meta"} ->
            record(LogError(w, "Failed to deploy"), run("none", FALSE))
       [] outcome = "board" ->
            record(LogError(w2, "Failed to deploy"), run(status, FALSE))
       [] OTHER ->
            IF GateCounts(q.score)
            THEN record(log_action([w3 EXCEPT !.metrics.agents_generated = @ + 1],
                                   agent_name, "Deployed with score", client_id),
                        run(status, TRUE))
            ELSE record(w3, run(status, FALSE))

\* deploy_agent(agent_name, AGENT_REGISTRY[agent_name]), every open succeeding
deploy_agent(w, agent_name, client_id) ==
  deploy_source(w, agent_name, AgentSource(agent_name), client_id, "ok")

(***************************************************************************)
(* Initial state: a fresh .digi directory, the counters of lines 71-80,    *)
(* the scheduler about to start its first cycle.                            *)
(***************************************************************************)
\* load_config: the defaults, or the defaults and the mail credentials
DefaultConfig ==
  [key \in {"EMAIL_ACCOUNT", "IMAP_PORT", "SMTP_PORT"} |-> "set"]

MailConfig ==
  [key \in {"EMAIL_ACCOUNT", "IMAP_PORT", "SMTP_PORT", "EMAIL_PASSWORD",
            "IMAP_SERVER", "SMTP_SERVER"} |-> "set"]

InitialConfigs == {DefaultConfig, MailConfig}

Writers == {"sched", "req", "api"}

InitCommon ==
  /\ CONFIG \in InitialConfigs
  /\ metrics = [ tasks_processed |-> 0, tasks_failed |-> 0, agents_generated |-> 0,
                 clients_onboarded |-> 0, revenue_generated |-> 0,
                 client_satisfaction |-> 0, leads_generated |-> 0 ]
  /\ current_phase_index = 0
  /\ queueFile = [d \in LogDirs |-> AbsentFile]
  /\ actionsLog = [d \in LogDirs |-> EmptyBag]
  /\ feedbackFile = [d \in LogDirs |-> EmptyBag]
  /\ loggerErrors = EmptyBag
  /\ metaFile = [a \in ModelledAgents |-> NoMeta]
  /\ scoreboard = << >>
  /\ stamps = [t \in Writers |-> 0]
  /\ step = "-"
  /\ idx = 0
  /\ cycle = 0
  /\ overrides = {}
  /\ queue = EmptyDict
  /\ tasks = << >>
  /\ agent_instance = NoInstance
  /\ rpc = "idle"
  /\ req = [content |-> "", client_id |-> None, queue |-> EmptyDict]
  /\ commands = 0
  /\ insights = NoResponse
  /\ apiCalls = 0
  /\ failures = 0
  /\ dispatched = << >>
  /\ persisted = {}
  /\ snapshot = EmptyDict
  /\ lastCycle = "none"
  /\ gateRuns = << >>

Init == InitCommon /\ pc = "SLEEP"

requestVars == <<rpc, req, commands, insights>>

\* history: what one guarded run_task changed
Effect(w, w2, self) ==
  [ processed |-> w2.metrics.tasks_processed - w.metrics.tasks_processed,
    failed |-> w2.metrics.tasks_failed - w.metrics.tasks_failed,
    leads |-> w2.metrics.leads_generated - w.metrics.leads_generated,
    lines |-> BagCardinality(w2.actions[log_dir(self.client_id)])
              - BagCardinality(w.actions[log_dir(self.client_id)]),
    task_errors |-> CopiesIn(<<self.name, "Task error">>,
                             w2.actions[log_dir(self.client_id)])
                    - CopiesIn(<<self.name, "Task error">>,
                               w.actions[log_dir(self.client_id)]),
    enqueued |-> {[agent |-> e.agent, task |-> e.task] :
                    e \in w2.persisted \ w.persisted} ]

(***************************************************************************)
(* Scheduler thread: main_loop_forever running autonomous_loop.            *)
(***************************************************************************)
\* Faulty variant: no try/except around autonomous_loop, an escaped exception ends the loop
StartCycleUnlessAborted ==
  /\ pc = "SLEEP"
  /\ lastCycle # "aborted"
  /\ cycle < MaxCycles
  /\ pc' = "AUDIT"
  /\ cycle' = cycle + 1
  /\ UNCHANGED << CONFIG, metrics, current_phase_index, queueFile, actionsLog,
                  feedbackFile, loggerErrors, metaFile, scoreboard, stamps, step,
                  idx, overrides, queue, tasks, agent_instance, rpc, req, commands,
                  insights, apiCalls, failures, dispatched, persisted, gateRuns,
                  lastCycle, snapshot >>

\* Faulty variant: every cycle starts by resetting the counters
StartCycleResetsMetrics ==
  /\ pc = "SLEEP"
  /\ cycle < MaxCycles
  /\ pc' = "AUDIT"
  /\ cycle' = cycle + 1
  /\ metrics' = [k \in DOMAIN metrics |-> 0]
  /\ UNCHANGED << CONFIG, current_phase_index, queueFile, actionsLog,
                  feedbackFile, loggerErrors, metaFile, scoreboard, stamps, step,
                  idx, overrides, queue, tasks, agent_instance, requestVars,
                  apiCalls, failures, dispatched, persisted, gateRuns, lastCycle, snapshot >>

\* main_loop_forever, lines 912-914: the next iteration calls autonomous_loop
StartCycle ==
  /\ pc = "SLEEP"
  /\ cycle < MaxCycles
  /\ pc' = "AUDIT"
  /\ cycle' = cycle + 1
  /\ UNCHANGED << CONFIG, metrics, current_phase_index, queueFile, actionsLog,
                  feedbackFile, loggerErrors, metaFile, scoreboard, stamps, step,
                  idx, overrides, queue, tasks, agent_instance, requestVars,
                  apiCalls, failures, dispatched, persisted, gateRuns, lastCycle, snapshot >>

RECURSIVE ConstructAll(_, _)
ConstructAll(w, i) ==
  IF i > Len(Registry) THEN w
  ELSE ConstructAll(Construct(w, Registry[i], None).w, i + 1)

\* autonomous_loop, lines 890-891: every class is instantiated for its
\* required_keys, then the union is audited
Audit ==
  /\ pc = "AUDIT"
  /\ Commit(audit_env_keys(ConstructAll(World, 1),
                           UNION {required_keys(Registry[i]) : i \in 1..Len(Registry)}))
  /\ pc' = "OVERRIDE_CHECK"
  /\ UNCHANGED << CONFIG, current_phase_index, step, idx, cycle, overrides, queue,
                  tasks, agent_instance, requestVars, apiCalls, failures,
                  dispatched, lastCycle, snapshot >>

\* autonomous_loop, line 892
OverrideCheck ==
  /\ pc = "OVERRIDE_CHECK"
  /\ overrides' = check_owner_overrides(None)
  /\ pc' = "DEPLOY"
  /\ idx' = 1
  /\ UNCHANGED << CONFIG, metrics, current_phase_index, queueFile, actionsLog,
                  feedbackFile, loggerErrors, metaFile, scoreboard, stamps, step,
                  cycle, queue, tasks, agent_instance, requestVars, apiCalls,
                  failures, dispatched, persisted, gateRuns, lastCycle, snapshot >>

\* Faulty variant: the seed loop is skipped, DISPATCH follows DEPLOY
DeploySkipsSeed ==
  /\ pc = "DEPLOY"
  /\ Commit(IF SeedTasks[idx][1] \in overrides THEN World
            ELSE deploy_agent(World, SeedTasks[idx][1], None))
  /\ IF idx < Len(SeedTasks)
     THEN idx' = idx + 1 /\ UNCHANGED <<pc, step>>
     ELSE idx' = 1 /\ pc' = "DISPATCH" /\ step' = "load"
  /\ UNCHANGED << CONFIG, current_phase_index, cycle, overrides, queue, tasks,
                  agent_instance, requestVars, apiCalls, failures, dispatched,
                  lastCycle, snapshot >>

\* autonomous_loop, lines 895-897: one iteration of the deploy loop
Deploy ==
  /\ pc = "DEPLOY"
  /\ Commit(IF SeedTasks[idx][1] \in overrides THEN World
            ELSE deploy_agent(World, SeedTasks[idx][1], None))
  /\ IF idx < Len(SeedTasks)
     THEN idx' = idx + 1 /\ UNCHANGED <<pc, step>>
     ELSE idx' = 1 /\ pc' = "SEED" /\ step' = "load"
  /\ UNCHANGED << CONFIG, current_phase_index, cycle, overrides, queue, tasks,
                  agent_instance, requestVars, apiCalls, failures, dispatched,
                  lastCycle, snapshot >>

\* the same iteration when an open inside deploy_agent fails (lines 789-791)
DeployFails ==
  /\ pc = "DEPLOY"
  /\ SeedTasks[idx][1] \notin overrides
  /\ failures < MaxFailures
  /\ failures' = failures + 1
  /\ \E outcome \in DeployOutcomes \ {"ok"} :
       Commit(deploy_source(World, SeedTasks[idx][1], AgentSource(SeedTasks[idx][1]),
                            None, outcome))
  /\ IF idx < Len(SeedTasks)
     THEN idx' = idx + 1 /\ UNCHANGED <<pc, step>>
     ELSE idx' = 1 /\ pc' = "SEED" /\ step' = "load"
  /\ UNCHANGED << CONFIG, current_phase_index, cycle, overrides, queue, tasks,
                  agent_instance, requestVars, apiCalls, dispatched, lastCycle,
                  snapshot >>

\* autonomous_loop, lines 900-901, first half of update_task_queue (174-177)
SeedLoad ==
  /\ pc = "SEED" /\ step = "load"
  /\ Commit(load_task_queue(World, None).w)
  /\ queue' = load_task_queue(World, None).queue
  /\ step' = "write"
  /\ UNCHANGED << CONFIG, current_phase_index, pc, idx, cycle, overrides, tasks,
                  agent_instance, requestVars, apiCalls, failures, dispatched,
                  lastCycle, snapshot >>

\* second half of update_task_queue (178-189) and the seed loop's next iteration
SeedWriteStep(outcome) ==
  /\ pc = "SEED" /\ step = "write"
  /\ Commit(update_task_queue_write(World, SeedTasks[idx][1],
                                    TaskDict(SeedTasks[idx][2], 1), None, queue,
                                    "sched", outcome))
  /\ queue' = EmptyDict
  /\ IF idx < Len(SeedTasks)
     THEN idx' = idx + 1 /\ step' = "load" /\ UNCHANGED pc
     ELSE idx' = 1 /\ pc' = "DISPATCH" /\ step' = "load"
  /\ UNCHANGED << CONFIG, current_phase_index, cycle, overrides, tasks,
                  agent_instance, requestVars, apiCalls, dispatched, lastCycle, snapshot >>

SeedWrite == SeedWriteStep("ok") /\ UNCHANGED failures

SeedWriteFails ==
  /\ failures < MaxFailures
  /\ failures' = failures + 1
  /\ \E outcome \in WriteOutcomes \ {"ok"} : SeedWriteStep(outcome)

(***************************************************************************)
(* run_agents(None).                                                       *)
(***************************************************************************)
\* line 802
DispatchLoad ==
  /\ pc = "DISPATCH" /\ step = "load"
  /\ Commit(load_task_queue(World, None).w)
  /\ queue' = load_task_queue(World, None).queue
  /\ snapshot' = load_task_queue(World, None).queue
  /\ idx' = 1
  /\ step' = "agent"
  /\ UNCHANGED << CONFIG, current_phase_index, pc, cycle, overrides, tasks,
                  agent_instance, requestVars, apiCalls, failures, dispatched,
                  lastCycle >>

\* Faulty variant: line 812 missing, the worker's list is not emptied
NextAgentKeepsTasks ==
  /\ queue' = queue
  /\ idx' = idx + 1
  /\ step' = IF idx < Len(Registry) THEN "agent" ELSE "persist"

\* line 812 and the for loop's next iteration, once the worker's tasks are done
NextAgent ==
  /\ queue' = DictSet(queue, Registry[idx], << >>)
  /\ idx' = idx + 1
  /\ step' = IF idx < Len(Registry) THEN "agent" ELSE "persist"

\* Faulty variant: a worker in the override set gets none of its tasks
DispatchAgentSkipsOverridden ==
  /\ pc = "DISPATCH" /\ step = "agent"
  /\ Commit(Construct(World, Registry[idx], None).w)
  /\ agent_instance' = Construct(World, Registry[idx], None).instance
  /\ tasks' = IF Registry[idx] \in overrides THEN << >>
              ELSE SortedTasks(DictGet(queue, Registry[idx], << >>))
  /\ IF tasks' = << >> THEN NextAgent
     ELSE step' = "task" /\ UNCHANGED <<queue, idx>>
  /\ UNCHANGED << CONFIG, current_phase_index, pc, cycle, overrides, requestVars,
                  apiCalls, failures, dispatched, lastCycle, snapshot >>

\* Faulty variant: the queue file is read again for every worker
DispatchAgentReloads ==
  /\ pc = "DISPATCH" /\ step = "agent"
  /\ Commit(Construct(World, Registry[idx], None).w)
  /\ agent_instance' = Construct(World, Registry[idx], None).instance
  /\ tasks' = SortedTasks(DictGet(load_task_queue(World, None).queue, Registry[idx], << >>))
  /\ IF tasks' = << >> THEN NextAgent
     ELSE step' = "task" /\ UNCHANGED <<queue, idx>>
  /\ UNCHANGED << CONFIG, current_phase_index, pc, cycle, overrides, requestVars,
                  apiCalls, failures, dispatched, lastCycle, snapshot >>

\* lines 803-805: the worker is constructed and its tasks are sorted
DispatchAgent ==
  /\ pc = "DISPATCH" /\ step = "agent"
  /\ Commit(Construct(World, Registry[idx], None).w)
  /\ agent_instance' = Construct(World, Registry[idx], None).instance
  /\ tasks' = SortedTasks(DictGet(queue, Registry[idx], << >>))
  /\ IF tasks' = << >> THEN NextAgent
     ELSE step' = "task" /\ UNCHANGED <<queue, idx>>
  /\ UNCHANGED << CONFIG, current_phase_index, pc, cycle, overrides, requestVars,
                  apiCalls, failures, dispatched, lastCycle, snapshot >>

\* Faulty variant: the try/except wraps the whole for loop, so the first task that
\* raises ends the worker's loop
DispatchTaskStopsOnError ==
  /\ pc = "DISPATCH" /\ step = "task"
  /\ Commit(GuardedRunTask(World, agent_instance, Head(tasks), "sched"))
  /\ dispatched' = Append(dispatched,
                          [ cycle |-> cycle, agent |-> agent_instance.name,
                            timestamp |-> Head(tasks).timestamp,
                            task |-> Head(tasks).task,
                            priority |-> Head(tasks).priority,
                            active |-> agent_instance.active,
                            raised |-> run_task(World, agent_instance, Head(tasks),
                                                "sched").raised,
                            effect |-> Effect(World,
                                              GuardedRunTask(World, agent_instance,
                                                             Head(tasks), "sched"),
                                              agent_instance) ])
  /\ tasks' = IF run_task(World, agent_instance, Head(tasks), "sched").raised
              THEN << >> ELSE Tail(tasks)
  /\ IF tasks' = << >> THEN NextAgent
     ELSE UNCHANGED <<queue, idx, step>>
  /\ UNCHANGED << CONFIG, current_phase_index, pc, cycle, overrides,
                  agent_instance, requestVars, apiCalls, failures, lastCycle,
                  snapshot >>

\* lines 806-811: the next task of the sorted list goes to run_task
DispatchTask ==
  /\ pc = "DISPATCH" /\ step = "task"
  /\ Commit(GuardedRunTask(World, agent_instance, Head(tasks), "sched"))
  /\ dispatched' = Append(dispatched,
                          [ cycle |-> cycle, agent |-> agent_instance.name,
                            timestamp |-> Head(tasks).timestamp,
                            task |-> Head(tasks).task,
                            priority |-> Head(tasks).priority,
                            active |-> agent_instance.active,
                            raised |-> run_task(World, agent_instance, Head(tasks),
                                                "sched").raised,
                            effect |-> Effect(World,
                                              GuardedRunTask(World, agent_instance,
                                                             Head(tasks), "sched"),
                                              agent_instance) ])
  /\ tasks' = Tail(tasks)
  /\ IF tasks' = << >> THEN NextAgent
     ELSE UNCHANGED <<queue, idx, step>>
  /\ UNCHANGED << CONFIG, current_phase_index, pc, cycle, overrides,
                  agent_instance, requestVars, apiCalls, failures, lastCycle, snapshot >>

\* lines 813-818: the emptied dict is written back; a failed write is logged
DispatchPersistStep(outcome, return_to) ==
  /\ pc = "DISPATCH" /\ step = "persist"
  /\ Commit(IF outcome = "ok" THEN WriteQueueFile(World, None, queue, "ok")
            ELSE LogError(WriteQueueFile(World, None, queue, outcome),
                          "Failed to save task queue"))
  /\ pc' = return_to
  /\ step' = "-"
  /\ idx' = 0
  /\ queue' = EmptyDict
  /\ agent_instance' = NoInstance
  /\ snapshot' = EmptyDict
  /\ UNCHANGED << CONFIG, current_phase_index, cycle, overrides, tasks,
                  requestVars, apiCalls, dispatched, lastCycle >>

DispatchPersist == DispatchPersistStep("ok", "ADVANCE_PHASE") /\ UNCHANGED failures

DispatchPersistFails ==
  /\ failures < MaxFailures
  /\ failures' = failures + 1
  /\ \E outcome \in WriteOutcomes \ {"ok"} :
       DispatchPersistStep(outcome, "ADVANCE_PHASE")

\* Faulty variant: the cursor is incremented without the modulo
AdvancePhaseNoWrap ==
  /\ pc = "ADVANCE_PHASE"
  /\ current_phase_index' = current_phase_index + 1
  /\ pc' = "SLEEP"
  /\ overrides' = {}
  /\ lastCycle' = "completed"
  /\ UNCHANGED << CONFIG, metrics, queueFile, actionsLog, feedbackFile,
                  loggerErrors, metaFile, scoreboard, stamps, step, idx, cycle,
                  queue, tasks, agent_instance, requestVars, apiCalls, failures,
                  dispatched, persisted, gateRuns, snapshot >>

\* autonomous_loop, line 905
AdvancePhase ==
  /\ pc = "ADVANCE_PHASE"
  /\ current_phase_index' = (current_phase_index + 1) % Len(business_phases)
  /\ pc' = "SLEEP"
  /\ overrides' = {}
  /\ lastCycle' = "completed"
  /\ UNCHANGED << CONFIG, metrics, queueFile, actionsLog, feedbackFile,
                  loggerErrors, metaFile, scoreboard, stamps, step, idx, cycle,
                  queue, tasks, agent_instance, requestVars, apiCalls, failures,
                  dispatched, persisted, gateRuns, snapshot >>

(***************************************************************************)
(* An exception that escapes autonomous_loop: os.makedirs is called        *)
(* outside any try by log_action, send_message_to_digiman,                 *)
(* update_task_queue and deploy_agent, so an I/O failure there propagates  *)
(* from AUDIT, DEPLOY, SEED and from DISPATCH (worker construction, the    *)
(* per-task handler's own log_action).  main_loop_forever, lines 915-917,  *)
(* catches it, logs it and sleeps.                                          *)
(***************************************************************************)
CanEscape ==
  \/ pc \in {"AUDIT", "DEPLOY"}
  \/ pc = "SEED" /\ step = "load"
  \/ pc = "DISPATCH" /\ step \in {"agent", "task"}

LoopException ==
  /\ CanEscape
  /\ failures < MaxFailures
  /\ failures' = failures + 1
  /\ loggerErrors' = loggerErrors (+) SetToBag({"Autonomous loop error"})
  /\ pc' = "SLEEP"
  /\ step' = "-"
  /\ idx' = 0
  /\ overrides' = {}
  /\ queue' = EmptyDict
  /\ tasks' = << >>
  /\ agent_instance' = NoInstance
  /\ snapshot' = EmptyDict
  /\ lastCycle' = "aborted"
  /\ UNCHANGED << CONFIG, metrics, current_phase_index, queueFile, actionsLog,
                  feedbackFile, metaFile, scoreboard, stamps, cycle, requestVars,
                  apiCalls, dispatched, persisted, gateRuns >>

(***************************************************************************)
(* Request surface: the Flask thread.  digiman_command records the message *)
(* and enqueues one task for Manager Agent; the enqueue is                 *)
(* update_task_queue's load followed, in a later step, by its write.       *)
(***************************************************************************)
Messages == {"hello", "OVERRIDE: Closer Agent"}

schedulerVars ==
  << pc, step, idx, cycle, overrides, queue, tasks, agent_instance, lastCycle,
     snapshot >>

\* digiman_command, lines 824-827, up to update_task_queue's load
CommandReceive(content, client_id) ==
  /\ rpc = "idle"
  /\ commands < MaxCommands
  /\ commands' = commands + 1
  /\ LET w1 == send_message_to_digiman(World, "USER: " \o content, client_id)
         l == load_task_queue(w1, client_id)
     IN /\ Commit(l.w)
        /\ req' = [content |-> content, client_id |-> client_id, queue |-> l.queue]
  /\ rpc' = "write"
  /\ UNCHANGED << CONFIG, current_phase_index, schedulerVars, insights, apiCalls,
                  failures, dispatched >>

\* update_task_queue's write, then the handler returns {"status": "received"}
CommandEnqueueStep(outcome) ==
  /\ rpc = "write"
  /\ Commit(update_task_queue_write(
              World, "Manager Agent",
              TaskDict("Process command: " \o req.content, 2), req.client_id,
              req.queue, "req", outcome))
  /\ rpc' = "idle"
  /\ req' = [content |-> "", client_id |-> None, queue |-> EmptyDict]
  /\ UNCHANGED << CONFIG, current_phase_index, schedulerVars, commands, insights,
                  apiCalls, dispatched >>

CommandEnqueue == CommandEnqueueStep("ok") /\ UNCHANGED failures

CommandEnqueueFails ==
  /\ failures < MaxFailures
  /\ failures' = failures + 1
  /\ \E outcome \in WriteOutcomes \ {"ok"} : CommandEnqueueStep(outcome)

(***************************************************************************)
(* The whole system: the scheduler loop, the request surface beside it,    *)
(* and the I/O failures of the environment.                                 *)
(***************************************************************************)
SchedulerNext ==
  \/ StartCycle
  \/ Audit
  \/ OverrideCheck
  \/ Deploy
  \/ SeedLoad
  \/ SeedWrite
  \/ DispatchLoad
  \/ DispatchAgent
  \/ DispatchTask
  \/ DispatchPersist
  \/ AdvancePhase

FailureNext ==
  \/ DeployFails
  \/ SeedWriteFails
  \/ DispatchPersistFails
  \/ LoopException

RequestNext ==
  \/ \E content \in Messages, client_id \in ClientIds :
       CommandReceive(content, client_id)
  \/ CommandEnqueue

Next == SchedulerNext \/ FailureNext \/ RequestNext \/ CommandEnqueueFails

Spec == Init /\ [][Next]_vars

(***************************************************************************)
(* The scheduler loop alone (no request in flight), with the I/O failures  *)
(* of the environment; and the same under weak fairness of the loop        *)
(* thread, which the operating system's scheduling of the thread gives.    *)
(***************************************************************************)
SchedNext == SchedulerNext \/ FailureNext

SchedSpec == Init /\ [][SchedNext]_vars

FairSchedSpec == Init /\ [][SchedNext]_vars /\ WF_vars(SchedulerNext)

(***************************************************************************)
(* The Task Queue Store and run_agents called directly by a single writer  *)
(* on the house tenant, every write succeeding.                             *)
(***************************************************************************)
\* the calls offered: (worker, description), with every priority and without one
ApiCalls ==
  { <<"Email Agent", "Process inbox">>,
    <<"CRM Agent", "add lead: mock lead found at x@y.com">>,
    <<"CRM Agent", "update deal">> }

ApiTasks(desc) ==
  {TaskDict(desc, p) : p \in 1..MaxPriority} \cup {TaskDictNoPriority(desc)}

InitStore == InitCommon /\ pc = "API"

\* update_task_queue(agent_name, task)
ApiEnqueue(agent_name, task) ==
  /\ pc = "API"
  /\ apiCalls < MaxEnqueues
  /\ apiCalls' = apiCalls + 1
  /\ Commit(update_task_queue(World, agent_name, task, None, "api"))
  /\ UNCHANGED << CONFIG, current_phase_index, schedulerVars, requestVars,
                  failures, dispatched >>

\* run_agents()
ApiRunAgents ==
  /\ pc = "API"
  /\ cycle < MaxCycles
  /\ cycle' = cycle + 1
  /\ pc' = "DISPATCH"
  /\ step' = "load"
  /\ UNCHANGED << CONFIG, metrics, current_phase_index, queueFile, actionsLog,
                  feedbackFile, loggerErrors, metaFile, scoreboard, stamps, idx,
                  overrides, queue, tasks, agent_instance, requestVars, apiCalls,
                  failures, dispatched, persisted, gateRuns, snapshot, lastCycle >>

ApiDispatchPersist == DispatchPersistStep("ok", "API") /\ UNCHANGED failures

StoreNext ==
  \/ \E call \in ApiCalls : \E task \in ApiTasks(call[2]) : ApiEnqueue(call[1], task)
  \/ ApiRunAgents
  \/ DispatchLoad
  \/ DispatchAgent
  \/ DispatchTask
  \/ ApiDispatchPersist

StoreSpec == InitStore /\ [][StoreNext]_vars


(***************************************************************************)
(* The scheduler loop with the owner's override directives for the house   *)
(* tenant arriving at any point of a cycle, every I/O call succeeding.     *)
(***************************************************************************)
OwnerNext ==
  \/ CommandReceive("OVERRIDE: Closer Agent", None)
  \/ CommandEnqueue

CmdNext == SchedulerNext \/ OwnerNext

CmdSpec == Init /\ [][CmdNext]_vars

(***************************************************************************)
(* The scheduler loop over more cycles than the phase sequence is long,    *)
(* with the exceptions that escape a cycle.                                 *)
(***************************************************************************)
\* main_loop_forever, lines 912-914, for the cycles after the first MaxCycles
LongRunStart ==
  /\ pc = "SLEEP"
  /\ cycle >= MaxCycles
  /\ cycle < MaxLongRun
  /\ pc' = "AUDIT"
  /\ cycle' = cycle + 1
  /\ UNCHANGED << CONFIG, metrics, current_phase_index, queueFile, actionsLog,
                  feedbackFile, loggerErrors, metaFile, scoreboard, stamps, step,
                  idx, overrides, queue, tasks, agent_instance, requestVars,
                  apiCalls, failures, dispatched, persisted, gateRuns, lastCycle,
                  snapshot >>

LongRunNext == SchedulerNext \/ LongRunStart \/ LoopException

LongRunSpec == Init /\ [][LongRunNext]_vars

(***************************************************************************)
(* The Deployment Gate called directly: deploy_agent for a worker name and *)
(* a class of any source text, with every outcome of its file writes.      *)
(***************************************************************************)
\* the source texts offered: every combination of the four check outcomes
SourceTexts ==
  { SourceText(c, k, d, l) : c \in {"ok", "SyntaxError", "RecursionError"},
                             k \in BOOLEAN, d \in {2, 3}, l \in BOOLEAN }

InitGate == InitCommon /\ pc = "GATE"

\* deploy_agent(agent_name, agent_class)
ApiDeploy(agent_name, code, outcome) ==
  /\ pc = "GATE"
  /\ apiCalls < MaxGateCalls
  /\ apiCalls' = apiCalls + 1
  /\ Commit(deploy_source(World, agent_name, code, None, outcome))
  /\ UNCHANGED << CONFIG, current_phase_index, schedulerVars, requestVars,
                  failures, dispatched >>

GateNext ==
  \E agent_name \in ModelledAgents, code \in SourceTexts, outcome \in DeployOutcomes :
    ApiDeploy(agent_name, code, outcome)

GateSpec == InitGate /\ [][GateNext]_vars

(***************************************************************************)
(* The configuration store and the workers' constructors: the integrate   *)
(* endpoint adds keys to CONFIG, and a worker is instantiated.             *)
(***************************************************************************)
\* the applications offered to /digiman/integrate, and the values of a field
\* of the request: a non-empty string, or empty or missing
IntegratedApps == {"CALL", "CRM"}

FieldValues == {"set", ""}

InitConfig == InitCommon /\ pc = "CONFIG"

\* integrate_app with app_name, api_key and endpoint, for the house tenant
IntegrateApp(app_name, api_key, endpoint) ==
  /\ pc = "CONFIG"
  /\ apiCalls < MaxConfigCalls
  /\ apiCalls' = apiCalls + 1
  /\ CONFIG' = [key \in DOMAIN CONFIG \cup {app_name \o "_API_KEY",
                                            app_name \o "_ENDPOINT"} |->
                  IF key = app_name \o "_API_KEY" THEN api_key
                  ELSE IF key = app_name \o "_ENDPOINT" THEN endpoint
                  ELSE CONFIG[key]]
  /\ Commit(log_action(World, "Integration", "Integrated", None))
  /\ UNCHANGED << current_phase_index, schedulerVars, requestVars, failures,
                  dispatched >>

\* agent_class(None) for a registry worker
ApiConstruct(agent_name) ==
  /\ pc = "CONFIG"
  /\ apiCalls < MaxConfigCalls
  /\ apiCalls' = apiCalls + 1
  /\ Commit(Construct(World, agent_name, None).w)
  /\ agent_instance' = Construct(World, agent_name, None).instance
  /\ UNCHANGED << CONFIG, current_phase_index, pc, step, idx, cycle, overrides,
                  queue, tasks, lastCycle, snapshot, requestVars, failures,
                  dispatched >>

ConfigNext ==
  \/ \E app_name \in IntegratedApps, api_key \in FieldValues, endpoint \in FieldValues :
       IntegrateApp(app_name, api_key, endpoint)
  \/ \E agent_name \in ModelledAgents : ApiConstruct(agent_name)

ConfigSpec == InitConfig /\ [][ConfigNext]_vars

(***************************************************************************)
(* The scheduler loop with commands of every tenant arriving at any point  *)
(* of a cycle, every I/O call succeeding; and the loop with the owner's    *)
(* commands under weak fairness of both threads.                           *)
(***************************************************************************)
TenantNext == SchedulerNext \/ RequestNext

TenantSpec == Init /\ [][TenantNext]_vars

FairCmdSpec ==
  Init /\ [][CmdNext]_vars /\ WF_vars(SchedulerNext) /\ WF_vars(OwnerNext)

(***************************************************************************)
(* One scheduler cycle, up to the end of its DISPATCH, with the two         *)
(* enqueues that race on the house queue file, the scheduler's seed and    *)
(* the command's, at the grain of the file system: an enqueue is           *)
(* update_task_queue's load, then the open of line 185, which truncates    *)
(* the file, then the dump and close of line 186.  A load that falls       *)
(* between the open and the close of the other thread reads a truncated    *)
(* file.                                                                    *)
(***************************************************************************)
\* the seed's open(queue_path, "w")
SeedWriteOpen ==
  /\ pc = "SEED" /\ step = "write"
  /\ Commit(WriteQueueFile(World, None, EmptyDict, "corrupt"))
  /\ step' = "dump"
  /\ UNCHANGED << CONFIG, current_phase_index, pc, idx, cycle, overrides, queue,
                  tasks, agent_instance, requestVars, apiCalls, failures,
                  dispatched, lastCycle, snapshot >>

\* the seed's json.dump and close, its log_action, and the loop's next iteration
SeedWriteDump ==
  /\ pc = "SEED" /\ step = "dump"
  /\ Commit(update_task_queue_write(World, SeedTasks[idx][1],
                                    TaskDict(SeedTasks[idx][2], 1), None, queue,
                                    "sched", "ok"))
  /\ queue' = EmptyDict
  /\ IF idx < Len(SeedTasks)
     THEN idx' = idx + 1 /\ step' = "load" /\ UNCHANGED pc
     ELSE idx' = 1 /\ pc' = "DISPATCH" /\ step' = "load"
  /\ UNCHANGED << CONFIG, current_phase_index, cycle, overrides, tasks,
                  agent_instance, requestVars, apiCalls, failures, dispatched,
                  lastCycle, snapshot >>

\* the command's open(queue_path, "w")
CommandEnqueueOpen ==
  /\ rpc = "write"
  /\ Commit(WriteQueueFile(World, req.client_id, EmptyDict, "corrupt"))
  /\ rpc' = "dump"
  /\ UNCHANGED << CONFIG, current_phase_index, schedulerVars, req, commands,
                  insights, apiCalls, failures, dispatched >>

\* the command's json.dump and close, its log_action, and the handler's return
CommandEnqueueDump ==
  /\ rpc = "dump"
  /\ Commit(update_task_queue_write(
              World, "Manager Agent",
              TaskDict("Process command: " \o req.content, 2), req.client_id,
              req.queue, "req", "ok"))
  /\ rpc' = "idle"
  /\ req' = [content |-> "", client_id |-> None, queue |-> EmptyDict]
  /\ UNCHANGED << CONFIG, current_phase_index, schedulerVars, commands, insights,
                  apiCalls, failures, dispatched >>

RaceNext ==
  \/ StartCycle
  \/ Audit
  \/ OverrideCheck
  \/ Deploy
  \/ SeedLoad
  \/ SeedWriteOpen
  \/ SeedWriteDump
  \/ DispatchLoad
  \/ DispatchAgent
  \/ DispatchTask
  \/ DispatchPersist
  \/ CommandReceive("hello", None)
  \/ CommandEnqueueOpen
  \/ CommandEnqueueDump

RaceSpec == Init /\ [][RaceNext]_vars

(***************************************************************************)
(* The scheduler loop with the insights query arriving at any point of a   *)
(* cycle.                                                                   *)
(***************************************************************************)
\* Faulty variant: the query is recorded with log_action like the other endpoints
GetInsightsLogged ==
  /\ apiCalls < MaxQueries
  /\ apiCalls' = apiCalls + 1
  /\ insights' = [ phase |-> business_phases[current_phase_index + 1],
                   metrics |-> metrics ]
  /\ Commit(log_action(World, "Insights", "Queried", None))
  /\ UNCHANGED << CONFIG, current_phase_index, schedulerVars, rpc, req, commands,
                  failures, dispatched >>

\* get_insights: {"phase": business_phases[current_phase_index], "metrics": metrics}
GetInsights ==
  /\ apiCalls < MaxQueries
  /\ apiCalls' = apiCalls + 1
  /\ insights' = [ phase |-> business_phases[current_phase_index + 1],
                   metrics |-> metrics ]
  /\ UNCHANGED << CONFIG, metrics, current_phase_index, queueFile, actionsLog,
                  feedbackFile, loggerErrors, metaFile, scoreboard, stamps,
                  schedulerVars, rpc, req, commands, failures, dispatched,
                  persisted, gateRuns >>

QueryNext == SchedulerNext \/ GetInsights

QuerySpec == Init /\ [][QueryNext]_vars

(***************************************************************************)
(* Properties.  Helpers over the history variables first.                  *)
(***************************************************************************)
\* how many times the entry stamped ts went to a run_task
TimesDispatched(ts) ==
  Cardinality({i \in DOMAIN dispatched : dispatched[i].timestamp = ts})

\* how many times the entry stamped ts stands in worker a's list of tenant c's file
TimesInFile(c, a, ts) ==
  LET l == DictGet(queueFile[log_dir(c)].q, a, << >>)
  IN Cardinality({n \in DOMAIN l : l[n].timestamp = ts})

\* both entries stamped by the same writer, d1 first
EnqueuedBefore(d1, d2) ==
  d1.timestamp[1] = d2.timestamp[1] /\ d1.timestamp[2] < d2.timestamp[2]

\* the house queue file holds an empty list for every registry worker
HouseQueueEmpty ==
  /\ queueFile[None].st = "ok"
  /\ \A i \in 1..Len(Registry) :
       DictGet(queueFile[None].q, Registry[i], <<"absent">>) = << >>

\* the keywords each run_task looks for
AgentKeywords(agent_name) ==
  CASE agent_name = "Manager Agent" -> {"monitor", "report", "process command"}
    [] agent_name = "Email Agent" -> {"process inbox", "send campaign"}
    [] agent_name = "Closer Agent" -> {"close deal"}
    [] agent_name = "CRM Agent" -> {"add lead", "update deal"}
    [] OTHER -> {}

MatchesKeyword(agent_name, text) ==
  \E kw \in AgentKeywords(agent_name) : Contains(kw, text)

\* the order of the cycle's states, SLEEP being the delay between two cycles
CycleOrder ==
  { <<"SLEEP", "AUDIT">>, <<"AUDIT", "OVERRIDE_CHECK">>, <<"OVERRIDE_CHECK", "DEPLOY">>,
    <<"DEPLOY", "SEED">>, <<"SEED", "DISPATCH">>, <<"DISPATCH", "ADVANCE_PHASE">>,
    <<"ADVANCE_PHASE", "SLEEP">> }

\* C1: within one run_agents pass the tasks of one worker go to its run_task in
\* descending priority order, and tasks of equal priority in the order they
\* were enqueued.
C1_PriorityOrder ==
  \A i, j \in DOMAIN dispatched :
    (i < j /\ dispatched[i].cycle = dispatched[j].cycle
           /\ dispatched[i].agent = dispatched[j].agent)
      => \/ dispatched[i].priority > dispatched[j].priority
         \/ /\ dispatched[i].priority = dispatched[j].priority
            /\ EnqueuedBefore(dispatched[i], dispatched[j])

\* 'update deal', enqueued after 'add lead ...' with a higher priority for the
\* same worker, was dispatched first
C1_Witness ==
  \E i, j \in DOMAIN dispatched :
    /\ i < j
    /\ dispatched[i].task.task = "update deal"
    /\ dispatched[j].task.task = "add lead: mock lead found at x@y.com"
    /\ dispatched[i].cycle = dispatched[j].cycle
    /\ dispatched[i].agent = dispatched[j].agent
    /\ dispatched[i].priority > dispatched[j].priority
    /\ EnqueuedBefore(dispatched[j], dispatched[i])

\* C2: a task that was persisted for a worker leaves the persisted queue only
\* by being dispatched, also when a command is enqueued while the scheduler
\* is in DISPATCH (no I/O failure involved).
C2_NoTaskLost ==
  failures = 0 =>
    \A e \in persisted :
      \/ TimesInFile(e.client_id, e.agent, e.timestamp) >= 1
      \/ TimesDispatched(e.timestamp) >= 1

\* C3: no persisted task is dispatched more than once, also when the final
\* queue write of a pass is skipped or the pass is aborted.
C3_AtMostOnce ==
  \A e \in persisted : TimesDispatched(e.timestamp) <= 1

\* C4: with a single writer, every task enqueued is, once run_agents has
\* returned, either dispatched exactly once to the worker it was enqueued for
\* or still waiting in the file (enqueued after the pass), never both and
\* never neither; nothing else is dispatched.
C4_RoundTrip ==
  pc = "API" =>
    /\ \A e \in persisted :
         TimesDispatched(e.timestamp) + TimesInFile(None, e.agent, e.timestamp) = 1
    /\ \A i \in DOMAIN dispatched :
         \E e \in persisted :
           /\ e.timestamp = dispatched[i].timestamp
           /\ e.agent = dispatched[i].agent
           /\ e.task = dispatched[i].task

\* two tasks for two workers were enqueued, one pass dispatched both and left
\* the file empty
C4_Witness ==
  /\ pc = "API"
  /\ cycle = 1
  /\ Cardinality(persisted) = 2
  /\ Len(dispatched) = 2
  /\ dispatched[1].agent # dispatched[2].agent
  /\ HouseQueueEmpty

\* C5 as stated: whenever DISPATCH has completed, the persisted house queue
\* holds an empty list for every worker.
C5_QueueEmptyAfterDispatch ==
  pc = "ADVANCE_PHASE" => HouseQueueEmpty

\* C5 amended: when DISPATCH completes and its final write was not skipped by
\* an I/O failure (no "Failed to save task queue" logged), the persisted house
\* queue holds an empty list for every worker right after that write, whether
\* or not a task raised.
C5_QueueEmptyAfterSave ==
  [][ ( /\ pc = "DISPATCH"
        /\ pc' = "ADVANCE_PHASE"
        /\ CopiesIn("Failed to save task queue", loggerErrors')
             = CopiesIn("Failed to save task queue", loggerErrors) )
      => HouseQueueEmpty' ]_vars

\* DISPATCH completed a pass in which a task raised, and the queue is empty
C5_Witness ==
  /\ pc = "ADVANCE_PHASE"
  /\ HouseQueueEmpty
  /\ \E i \in DOMAIN dispatched : dispatched[i].cycle = cycle /\ dispatched[i].raised

\* C6: an exception raised by a run_task is caught per task: it adds exactly
\* one to tasks_failed and one 'Task error' line, and every other task the
\* pass loaded, of the same worker and of the later workers, is still
\* dispatched in that pass.
C6_FailureIsolation ==
  /\ \A i \in DOMAIN dispatched :
       dispatched[i].raised =>
         dispatched[i].effect.failed = 1 /\ dispatched[i].effect.task_errors = 1
  /\ (pc = "DISPATCH" /\ step \in {"agent", "task", "persist"}) =>
       \A k \in 1..Len(Registry) :
         LET loaded == DictGet(snapshot, Registry[k], << >>)
             ran(ts) == \E i \in DOMAIN dispatched :
                          /\ dispatched[i].cycle = cycle
                          /\ dispatched[i].agent = Registry[k]
                          /\ dispatched[i].timestamp = ts
             waits(ts) == \E n \in DOMAIN tasks : tasks[n].timestamp = ts
         IN /\ k < idx => \A n \in DOMAIN loaded : ran(loaded[n].timestamp)
            /\ (k = idx /\ step = "task") =>
                 \A n \in DOMAIN loaded :
                   ran(loaded[n].timestamp) \/ waits(loaded[n].timestamp)

\* a task raised, and a later task of the same worker and a task of a later
\* worker were dispatched after it in the same pass
C6_Witness ==
  \E i, j, k \in DOMAIN dispatched :
    /\ i < j /\ j < k
    /\ dispatched[i].raised
    /\ dispatched[j].cycle = dispatched[i].cycle
    /\ dispatched[k].cycle = dispatched[i].cycle
    /\ dispatched[j].agent = dispatched[i].agent
    /\ dispatched[k].agent # dispatched[i].agent

\* C7: a task whose description matches none of the worker's keywords is a
\* silent no-op: run_task raises nothing, tasks_failed is unchanged and no
\* 'Task error' line is written.
C7_UnmatchedIsNoOp ==
  \A i \in DOMAIN dispatched :
    ~MatchesKeyword(dispatched[i].agent, dispatched[i].task.task) =>
      /\ ~dispatched[i].raised
      /\ dispatched[i].effect.failed = 0
      /\ dispatched[i].effect.task_errors = 0

\* C8: dispatching 'Process inbox' to the Email Agent in simulated mode adds
\* 5 to leads_generated, leaves tasks_failed unchanged and enqueues exactly one
\* follow-up, 'Add mock leads' with priority 2 for the CRM Agent.
C8_MockInbox ==
  \A i \in DOMAIN dispatched :
    ( /\ dispatched[i].agent = "Email Agent"
      /\ dispatched[i].task.task = "Process inbox"
      /\ ~dispatched[i].active )
    => /\ dispatched[i].effect.leads = 5
       /\ dispatched[i].effect.failed = 0
       /\ dispatched[i].effect.enqueued
            = {[agent |-> "CRM Agent", task |-> TaskDict("Add mock leads", 2)]}

\* C9 as stated: the cycle passes through AUDIT, OVERRIDE_CHECK, DEPLOY, SEED,
\* DISPATCH, ADVANCE_PHASE in that order and skips none of them.
C9_NoStateSkipped ==
  [][ pc' # pc => <<pc, pc'>> \in CycleOrder ]_vars

\* C9 amended: the cycle's states follow each other in that order, none
\* skipped, unless an exception escapes the cycle from AUDIT, DEPLOY, SEED or
\* DISPATCH: then the cycle ends there, logged as 'Autonomous loop error',
\* without reaching ADVANCE_PHASE.
C9_OrderUnlessAborted ==
  [][ pc' # pc =>
        \/ /\ <<pc, pc'>> \in CycleOrder
           /\ CopiesIn("Autonomous loop error", loggerErrors')
                = CopiesIn("Autonomous loop error", loggerErrors)
           /\ lastCycle' = (IF pc = "ADVANCE_PHASE" THEN "completed" ELSE lastCycle)
        \/ /\ pc \in {"AUDIT", "DEPLOY", "SEED", "DISPATCH"}
           /\ pc' = "SLEEP"
           /\ lastCycle' = "aborted"
           /\ current_phase_index' = current_phase_index
           /\ CopiesIn("Autonomous loop error", loggerErrors')
                = CopiesIn("Autonomous loop error", loggerErrors) + 1 ]_vars

\* a cycle was aborted and the next one started at AUDIT
C9_Witness ==
  pc = "AUDIT" /\ lastCycle = "aborted"

\* C10: the loop has no terminal state: an exception that escapes a cycle is
\* logged at the loop boundary, and (under fairness of the scheduler thread)
\* a new cycle starts afterwards.
C10_LoopResumes ==
  /\ [](lastCycle = "aborted" => CopiesIn("Autonomous loop error", loggerErrors) >= 1)
  /\ (lastCycle = "aborted" /\ pc = "SLEEP" /\ cycle < MaxCycles) ~> (pc = "AUDIT")

\* the loop sleeps after a cycle that an exception ended
C10_Witness ==
  /\ lastCycle = "aborted"
  /\ pc = "SLEEP"
  /\ cycle < MaxCycles
  /\ CopiesIn("Autonomous loop error", loggerErrors) = 1


\* how many times deploy_agent ran for worker a in cycle c
GateRunsIn(c, a) ==
  Cardinality({i \in DOMAIN gateRuns : gateRuns[i].cycle = c /\ gateRuns[i].agent = a})

\* the house tenant's feedback log holds the line 'USER: OVERRIDE: <a>'
OverrideWritten(a) == ("USER: OVERRIDE: " \o a) \in BagToSet(feedbackFile[None])

\* C11: a worker named by an OVERRIDE line of the house feedback log when
\* OVERRIDE_CHECK runs is in the cycle's override set; the DEPLOY step does
\* not run the gate for it (no metadata write, no scoreboard line, no change
\* of agents_generated), and once DEPLOY is done every other registry worker
\* has been run through the gate exactly once in the cycle.
C11_OverrideSkipsDeploy ==
  /\ [][ (pc = "OVERRIDE_CHECK" /\ pc' = "DEPLOY") =>
           \A i \in 1..Len(Registry) :
             OverrideWritten(Registry[i]) => Registry[i] \in overrides' ]_vars
  /\ [][ (pc = "DEPLOY" /\ SeedTasks[idx][1] \in overrides) =>
           /\ metaFile' = metaFile
           /\ scoreboard' = scoreboard
           /\ gateRuns' = gateRuns
           /\ metrics'.agents_generated = metrics.agents_generated ]_vars
  /\ [](pc \in {"SEED", "DISPATCH", "ADVANCE_PHASE"} =>
          \A i \in 1..Len(Registry) :
            GateRunsIn(cycle, Registry[i])
              = (IF Registry[i] \in overrides THEN 0 ELSE 1))

\* DEPLOY is done in a cycle whose OVERRIDE_CHECK found 'OVERRIDE: Closer
\* Agent': no record exists for Closer Agent, the others were gated once
C11_Witness ==
  /\ pc = "SEED"
  /\ OverrideWritten("Closer Agent")
  /\ "Closer Agent" \in overrides
  /\ metaFile["Closer Agent"] = NoMeta
  /\ GateRunsIn(cycle, "Closer Agent") = 0
  /\ GateRunsIn(cycle, "Manager Agent") = 1
  /\ metaFile["Manager Agent"].status = "DEPLOYED"

\* C12: an override lasts one cycle: when a worker was skipped by the DEPLOY
\* step of a cycle and no further OVERRIDE line was written for it, the next
\* cycle's DEPLOY step runs it through the gate again.
C12_OverrideLastsOneCycle ==
  ( /\ pc = "SEED"
    /\ cycle >= 2
    /\ GateRunsIn(cycle - 1, "Closer Agent") = 0
    /\ GateRunsIn(cycle - 1, "Manager Agent") = 1
    /\ CopiesIn("USER: OVERRIDE: Closer Agent", feedbackFile[None]) = 1 )
  => GateRunsIn(cycle, "Closer Agent") = 1

ChecksPassed(code) ==
  <<code.compiles = "ok", code.has_class, code.defs >= 3, code.has_log_action>>

IssueOf(n) ==
  <<"Syntax error", "Missing class definition", "Less than 3 methods defined",
    "Missing log_action usage">>[n]

RECURSIVE IssuesFrom(_, _)
IssuesFrom(code, n) ==
  IF n > 4 THEN << >>
  ELSE (IF ChecksPassed(code)[n] THEN << >> ELSE <<IssueOf(n)>>)
       \o IssuesFrom(code, n + 1)

\* the last call of deploy_agent
LastGateRun == gateRuns[Len(gateRuns)]

\* lines of an audit log that report worker a as locked
LockedLines(a, log) == CopiesIn(<<a, "Agent locked due to low score">>, log)

\* C14: every deployment record deploy_agent wrote carries exactly one
\* marker: DEPLOYED if and only if its score is at least 3, LOCKED if and only
\* if its score is below 3.
C14_MarkerMatchesScore ==
  /\ \A a \in ModelledAgents :
       metaFile[a] # NoMeta =>
         /\ metaFile[a].status \in {"DEPLOYED", "LOCKED"}
         /\ metaFile[a].status = "DEPLOYED" <=> metaFile[a].score >= 3
         /\ metaFile[a].status = "LOCKED" <=> metaFile[a].score < 3
  /\ \A i \in DOMAIN gateRuns :
       gateRuns[i].marker # "none" =>
         /\ gateRuns[i].marker \in {"DEPLOYED", "LOCKED"}
         /\ gateRuns[i].marker = "DEPLOYED" <=> gateRuns[i].score >= 3
         /\ gateRuns[i].marker = "LOCKED" <=> gateRuns[i].score < 3

\* a record with the lowest passing score, 3, was written and is marked
\* DEPLOYED
C14_Witness ==
  \E a \in ModelledAgents :
    /\ metaFile[a] # NoMeta
    /\ metaFile[a].score = 3
    /\ metaFile[a].issues = <<"Missing class definition">>
    /\ metaFile[a].status = "DEPLOYED"

C16_CountsEveryDeployed ==
  [][ gateRuns' # gateRuns =>
        /\ metrics'.agents_generated - metrics.agents_generated
             = (IF LastGateRun'.marker = "DEPLOYED" THEN 1 ELSE 0)
        /\ LockedLines(LastGateRun'.agent, actionsLog'[None])
             - LockedLines(LastGateRun'.agent, actionsLog[None])
             = (IF LastGateRun'.marker = "LOCKED" THEN 1 ELSE 0) ]_vars

\* C16 amended: the same for every gate run whose three file writes succeed;
\* a run that fails at the scoreboard has written its marker (and the
\* 'Agent locked' line if LOCKED) but leaves agents_generated unchanged, and
\* a run that fails earlier changes neither.
C16_CountsCompletedDeployed ==
  [][ gateRuns' # gateRuns =>
        /\ metrics'.agents_generated - metrics.agents_generated
             = (IF LastGateRun'.marker = "DEPLOYED" /\ LastGateRun'.outcome = "ok"
                THEN 1 ELSE 0)
        /\ LockedLines(LastGateRun'.agent, actionsLog'[None])
             - LockedLines(LastGateRun'.agent, actionsLog[None])
             = (IF LastGateRun'.marker = "LOCKED" THEN 1 ELSE 0)
        /\ LastGateRun'.returned
             <=> (LastGateRun'.marker = "DEPLOYED" /\ LastGateRun'.outcome = "ok") ]_vars

\* one gate run was counted and the scoreboard has its line
C16_Witness ==
  /\ gateRuns # << >>
  /\ LastGateRun.marker = "DEPLOYED"
  /\ LastGateRun.outcome = "ok"
  /\ metrics.agents_generated = 1
  /\ Len(scoreboard) = 1

\* C17: a gate run changes nothing but the worker's deployment record, the
\* scoreboard and agents_generated: the task queue, the phase cursor, the
\* feedback log, the audit log and the other counters stay as they were.
C17_GateFrame ==
  [][ gateRuns' # gateRuns =>
        /\ queueFile' = queueFile
        /\ current_phase_index' = current_phase_index
        /\ feedbackFile' = feedbackFile
        /\ actionsLog' = actionsLog
        /\ [metrics' EXCEPT !.agents_generated = 0]
             = [metrics EXCEPT !.agents_generated = 0] ]_vars

\* C18: when a worker is instantiated, it is active if and only if every one
\* of its required keys has a non-empty value in CONFIG; with no required
\* key it is active.
C18_ActiveIffKeysSet ==
  [][ agent_instance' # agent_instance /\ agent_instance' # NoInstance =>
        /\ agent_instance'.active
             <=> \A key \in agent_instance'.required_keys :
                   key \in DOMAIN CONFIG /\ CONFIG[key] # ""
        /\ agent_instance'.required_keys = {} => agent_instance'.active ]_vars

\* Closer Agent was instantiated with its two CALL keys required, one of
\* them present with an empty value: it is not active
C18_Witness ==
  /\ agent_instance # NoInstance
  /\ agent_instance.name = "Closer Agent"
  /\ agent_instance.required_keys = {"CALL_API_KEY", "CALL_ENDPOINT"}
  /\ CONFIG["CALL_API_KEY"] = "set"
  /\ CONFIG["CALL_ENDPOINT"] = ""
  /\ ~agent_instance.active


\* the names of a sequence of (name, description) pairs
NamesOf(pairs) == {pairs[i][1] : i \in DOMAIN pairs}

\* C19: in a cycle that starts from an empty house queue, with no concurrent
\* writer and no I/O failure, SEED enqueues exactly one bootstrap task of
\* priority 1 for every worker name of the registry and for no other name:
\* when DISPATCH begins each registry worker has exactly one pending task.
C19_OneSeedPerWorker ==
  /\ NamesOf(agent_tasks) = {AGENT_REGISTRY[i] : i \in DOMAIN AGENT_REGISTRY}
  /\ Len(agent_tasks) = Cardinality(NamesOf(agent_tasks))
  /\ Len(AGENT_REGISTRY) = Cardinality(NamesOf(agent_tasks))
  /\ (pc = "DISPATCH" /\ step = "load" /\ failures = 0) =>
       /\ queueFile[None].st = "ok"
       /\ DOMAIN queueFile[None].q = {Registry[i] : i \in DOMAIN Registry}
       /\ \A i \in DOMAIN SeedTasks :
            LET pending == queueFile[None].q[SeedTasks[i][1]]
            IN /\ Len(pending) = 1
               /\ pending[1].priority = 1
               /\ pending[1].task = TaskDict(SeedTasks[i][2], 1)

\* DISPATCH begins in the second cycle: the queue the first cycle emptied
\* holds one bootstrap task per worker again
C19_Witness ==
  /\ pc = "DISPATCH" /\ step = "load"
  /\ failures = 0
  /\ cycle = 2
  /\ \A i \in DOMAIN Registry : Len(queueFile[None].q[Registry[i]]) = 1

\* cycles that an exception ended, by the lines the loop boundary logged
AbortedCycles == CopiesIn("Autonomous loop error", loggerErrors)

\* cycles that ran to their end
CompletedCycles == cycle - AbortedCycles - (IF pc = "SLEEP" THEN 0 ELSE 1)

\* C20 as stated: the cursor lies in 0..4, and after n cycles have been
\* started and finished, normally or by a loop-level exception, it equals
\* n mod 5.
C20_CursorCountsCycles ==
  /\ current_phase_index \in 0..4
  /\ pc = "SLEEP" => current_phase_index = cycle % 5

\* C20 amended: the cursor lies in 0..4 and equals n mod 5 where n is the
\* number of cycles that reached ADVANCE_PHASE; a cycle ended by a loop-level
\* exception leaves it unchanged, and only ADVANCE_PHASE changes it, by one,
\* wrapping from 4 to 0.
C20_CursorCountsCompleted ==
  /\ [](/\ current_phase_index \in 0..4
        /\ current_phase_index = CompletedCycles % 5)
  /\ [][ current_phase_index' # current_phase_index =>
           /\ pc = "ADVANCE_PHASE"
           /\ current_phase_index'
                = (IF current_phase_index = 4 THEN 0 ELSE current_phase_index + 1) ]_vars

\* the fifth completed cycle has wrapped the cursor from 4 to 0
C20_Witness ==
  /\ pc = "SLEEP"
  /\ CompletedCycles = 5
  /\ current_phase_index = 0

\* the tenant a step of the request handler is scoped to: the client_id of
\* the request it receives or finishes
ScopeOfRequestStep == IF rpc = "idle" THEN req'.client_id ELSE req.client_id

\* C21: tenant state is partitioned: the feedback append, the enqueue and the
\* audit-log append of a command scoped to tenant A leave the persisted
\* queue, the audit log and the feedback log of every other tenant, the house
\* tenant included, unchanged.
C21_TenantFrame ==
  [][ rpc' # rpc =>
        \A B \in ClientIds \ {ScopeOfRequestStep} :
          /\ queueFile'[log_dir(B)] = queueFile[log_dir(B)]
          /\ actionsLog'[log_dir(B)] = actionsLog[log_dir(B)]
          /\ feedbackFile'[log_dir(B)] = feedbackFile[log_dir(B)] ]_vars

\* the entries writer t (the scheduler, the request thread) stored in the
\* house tenant's queue file
StoredBy(t) == {e \in persisted : e.timestamp[1] = t /\ log_dir(e.client_id) = None}

\* C22: the enqueue's read-modify-write is not atomic.  When the command's
\* enqueue interleaves with the scheduler's seed enqueues on the house
\* tenant, in every interleaving both callers complete: each write ends with
\* a well-formed file that holds the writer's own task and with its 'Task
\* queued' line, every accepted command has stored its task when the handler
\* returns, and no error reaches the cycle or the handler (a load that meets
\* a file the other thread has just truncated is logged and yields {}).
\* The lost update itself is the reachable state of the witness.
C22_RacingEnqueuesComplete ==
  /\ [][ persisted' # persisted =>
           \A e \in persisted' \ persisted :
             /\ queueFile'[log_dir(e.client_id)].st = "ok"
             /\ TimesInFile(e.client_id, e.agent, e.timestamp)' = 1
             /\ CopiesIn(<<e.agent, "Task queued">>, actionsLog'[log_dir(e.client_id)])
                  = CopiesIn(<<e.agent, "Task queued">>,
                             actionsLog[log_dir(e.client_id)]) + 1 ]_vars
  /\ [](/\ lastCycle # "aborted"
        /\ BagToSet(loggerErrors) \subseteq {"Failed to load task queue"})
  /\ [](rpc = "idle" => Cardinality(StoredBy("req")) = commands)

\* both enqueues have completed without any error logged, no DISPATCH has run
\* yet, and the house queue file holds the command's task but not the seed
\* task the scheduler stored
C22_Witness ==
  /\ pc = "SEED"
  /\ rpc = "idle"
  /\ dispatched = << >>
  /\ loggerErrors = EmptyBag
  /\ \E e1 \in StoredBy("req"), e2 \in StoredBy("sched") :
       /\ TimesInFile(None, e1.agent, e1.timestamp) = 1
       /\ TimesInFile(None, e2.agent, e2.timestamp) = 0

\* C23: load_task_queue never fails: it returns {} when the tenant has no
\* queue file or when the file is unreadable or corrupt (then the failure is
\* logged), the file's dict otherwise, and it leaves the file as it is; the
\* caller goes on.
C23_LoadNeverFails ==
  [][ (pc \in {"SEED", "DISPATCH"} /\ step = "load" /\ step' \in {"write", "agent"}) =>
        /\ queueFile' = queueFile
        /\ queue' = (IF queueFile[None].st = "ok" THEN queueFile[None].q ELSE EmptyDict)
        /\ pc' = pc
        /\ lastCycle' = lastCycle
        /\ CopiesIn("Failed to load task queue", loggerErrors')
             = CopiesIn("Failed to load task queue", loggerErrors)
               + (IF queueFile[None].st = "corrupt" THEN 1 ELSE 0) ]_vars

\* the seed loop has loaded a corrupt queue file: it holds {} and goes on to
\* its write, the file is still corrupt and the failure was logged
C23_Witness ==
  /\ pc = "SEED" /\ step = "write"
  /\ queueFile[None].st = "corrupt"
  /\ queue = EmptyDict
  /\ CopiesIn("Failed to load task queue", loggerErrors) = 1

\* C24: an I/O failure while update_task_queue writes the queue file is a
\* skipped write: the file is left as it was before the call, no 'Task
\* queued' line is recorded, and the caller (here the seed loop of the cycle)
\* goes on.
C24_WriteSkipped ==
  [][ CopiesIn("Failed to update task queue", loggerErrors')
        > CopiesIn("Failed to update task queue", loggerErrors) =>
        /\ queueFile' = queueFile
        /\ actionsLog' = actionsLog
        /\ lastCycle' = lastCycle
        /\ pc' \in {"SEED", "DISPATCH"} ]_vars

\* C25: the counters are never reset: no step of the scheduler loop or of the
\* request surface lowers any counter of metrics or removes one, and every
\* counter stays at or above its initial value 0.
C25_MetricsMonotone ==
  /\ [][ /\ DOMAIN metrics' = DOMAIN metrics
         /\ \A k \in DOMAIN metrics : metrics'[k] >= metrics[k] ]_vars
  /\ [](\A k \in DOMAIN metrics : metrics[k] >= 0)

\* the second cycle has started after a command was taken: the counters the
\* first cycle and the command raised are still there
C25_Witness ==
  /\ cycle = 2
  /\ pc = "AUDIT"
  /\ commands = 1
  /\ rpc = "idle"
  /\ metrics.agents_generated >= 3
  /\ metrics.tasks_failed >= 4
  /\ metrics.tasks_processed > metrics.tasks_failed + metrics.agents_generated

\* the response get_insights gives in the current state
InsightsNow ==
  [phase |-> business_phases[current_phase_index + 1], metrics |-> metrics]

\* C26: the insights query is read-only and idempotent: a call changes no
\* counter, queue, log, deployment record, configuration key or the phase
\* cursor; its response is the phase name under the cursor and the counters
\* as they are; and a call made when phase and counters are what they were at
\* the previous call returns the identical response.
C26_InsightsReadOnly ==
  [][ apiCalls' # apiCalls =>
        /\ UNCHANGED << CONFIG, metrics, current_phase_index, queueFile, actionsLog,
                        feedbackFile, loggerErrors, metaFile, scoreboard, pc, step,
                        idx, cycle, queue, tasks, rpc, req >>
        /\ insights' = InsightsNow
        /\ insights'.phase \in {business_phases[i] : i \in DOMAIN business_phases}
        /\ (insights # NoResponse /\ insights = InsightsNow) => insights' = insights ]_vars

\* the query was called twice after the first cycle and before the second
\* changed anything: the response holds the second phase name and the
\* counters of the first cycle, as the state does
C26_Witness ==
  /\ apiCalls = 2
  /\ cycle = 1
  /\ pc = "SLEEP"
  /\ insights.phase = "promotion"
  /\ insights.metrics.tasks_processed > 0
  /\ insights = InsightsNow

SnapshotStamps ==
  UNION { {snapshot[a][n].timestamp : n \in DOMAIN snapshot[a]} : a \in DOMAIN snapshot }

\* C28: a command taken for the house tenant is stored as exactly one task of
\* priority 2 for Manager Agent, and, the scheduler loop and the request
\* thread both being scheduled fairly, a command stored while a further
\* cycle is still to come is eventually handed to Manager Agent's run_task
\* by a DISPATCH; until then its task stays where a DISPATCH can find it, in
\* the queue file or in the dict the running pass has loaded.
C28_CommandReachesManager ==
  /\ [](\A e \in StoredBy("req") : e.agent = "Manager Agent" /\ e.task.priority = 2)
  /\ [](rpc = "idle" => Cardinality(StoredBy("req")) = commands)
  /\ [](\A e \in StoredBy("req") :
          \/ TimesDispatched(e.timestamp) >= 1
          \/ TimesInFile(None, e.agent, e.timestamp) >= 1
          \/ e.timestamp \in SnapshotStamps)
  /\ (rpc = "idle" /\ commands = 1 /\ cycle < MaxCycles)
       ~> (\E i \in DOMAIN dispatched :
             /\ dispatched[i].agent = "Manager Agent"
             /\ dispatched[i].timestamp[1] = "req")

\* C29: DISPATCH works on the dict run_agents loaded when it started: every
\* task a pass sorts for a worker or hands to a run_task is an entry of that
\* dict, and an entry written to the queue file after the load changes
\* neither the loaded dict nor the tasks still to run, so it is not passed to
\* a run_task in that pass, even when its worker's turn is still to come.
C29_DispatchUsesSnapshot ==
  /\ []((pc = "DISPATCH" /\ step \in {"agent", "task", "persist"}) =>
          /\ \A i \in DOMAIN dispatched :
               dispatched[i].cycle = cycle => dispatched[i].timestamp \in SnapshotStamps
          /\ \A n \in DOMAIN tasks : tasks[n].timestamp \in SnapshotStamps)
  /\ [][ (pc = "DISPATCH" /\ step # "load" /\ persisted' # persisted) =>
           /\ \A e \in persisted' \ persisted : e.timestamp \notin SnapshotStamps'
           /\ UNCHANGED <<snapshot, queue, tasks, dispatched>> ]_vars

\* a pass has handed every worker its tasks, Manager Agent's among them; the
\* queue file holds a command's task for Manager Agent that was written after
\* the pass had loaded the file, and it went to no run_task
C29_Witness ==
  /\ pc = "DISPATCH" /\ step = "persist"
  /\ \E i \in DOMAIN dispatched :
       dispatched[i].cycle = cycle /\ dispatched[i].agent = "Manager Agent"
  /\ \E e \in StoredBy("req") :
       /\ e.agent = "Manager Agent"
       /\ e.timestamp \notin SnapshotStamps
       /\ TimesInFile(None, e.agent, e.timestamp) = 1
       /\ TimesDispatched(e.timestamp) = 0

\* C30: the scheduler loop seeds, drains and dispatches the house tenant's
\* queue only: a task stored by a command that carries a client_id is never
\* passed to a run_task and never leaves that tenant's queue.
C30_OnlyHouseQueue ==
  \A e \in persisted :
    e.client_id # None =>
      /\ TimesDispatched(e.timestamp) = 0
      /\ TimesInFile(e.client_id, e.agent, e.timestamp) = 1

\* a command of the house tenant (no client_id) has been received
HouseCommandReceived ==
  \/ rpc = "write" /\ req.client_id = None
  \/ \E e \in persisted : e.timestamp[1] = "req" /\ e.client_id = None

\* C31: the override set of OVERRIDE_CHECK depends on the house tenant's
\* feedback only: a run in which every command carries a client_id computes
\* the override set and deploys the workers of the run without any command,
\* that is, the override set is empty in every cycle and the DEPLOY step runs
\* every registry worker through the gate once.
C31_TenantsDoNotSteerDeploy ==
  ~HouseCommandReceived =>
    /\ overrides = {}
    /\ pc \in {"SEED", "DISPATCH", "ADVANCE_PHASE"} =>
         \A i \in 1..Len(Registry) : GateRunsIn(cycle, Registry[i]) = 1

====
